---- MODULE Spec2Model ----
(***************************************************************************)
(* A model of lib/proxy/ssh/mac.c: the two-slot MAC generations of the     *)
(* read and of the write direction, key derivation, the generation switch  *)
(* and the per-packet compute/verify of the SSH transport.                 *)
(*                                                                         *)
(* The model follows the build for OpenSSL 1.1.0 and later (the first      *)
(* branch of every OPENSSL_VERSION_NUMBER conditional).  Byte strings are  *)
(* sequences; the keyed primitives (the digest, HMAC, UMAC) are opaque and *)
(* modelled as injective: an output byte is the record of the primitive's  *)
(* inputs and the byte's position.  A tag is a byte string whose bytes     *)
(* come from one output: it is held as that output's inputs (src) and, for *)
(* each position, the index of the output byte found there (0 for a zero   *)
(* byte, -1 for a byte from elsewhere).  A key buffer is held at the       *)
(* granularity of one output of the key-exchange digest.                   *)
(***************************************************************************)
EXTENDS Integers, Sequences, FiniteSets, TLC

VARIABLES
  read_macs,        \* read_macs[2]
  hmac_read_ctxs,   \* hmac_read_ctxs[2]
  umac_read_ctxs,   \* umac_read_ctxs[2]
  write_macs,       \* write_macs[2]
  hmac_write_ctxs,  \* hmac_write_ctxs[2]
  umac_write_ctxs,  \* umac_write_ctxs[2]
  mac_blockszs,     \* mac_blockszs[2]
  read_mac_idx,
  write_mac_idx,
  freed,            \* the blocks held by the key buffers handed to free(), as they were then
  pkt,              \* the struct proxy_ssh_packet of the last read_data/write_data call
  ret,              \* the last call made: its function and its return value
  phase,            \* "static", "running", "freed", or "crashed" (the process ended)
  ncalls            \* set_algorithm/set_key calls made so far, per direction

vars == << read_macs, hmac_read_ctxs, umac_read_ctxs, write_macs, hmac_write_ctxs,
           umac_write_ctxs, mac_blockszs, read_mac_idx, write_mac_idx, freed, pkt,
           ret, phase, ncalls >>

----------------------------------------------------------------------------
(* Bounds of the model. *)

\* set_algorithm/set_key calls on one direction in one session
MaxCalls == 4

\* set_algorithm/set_key calls in one session when both directions are driven
MaxBoth == 4

----------------------------------------------------------------------------
(* Program constants. *)

PROXY_SSH_MAC_ALGO_TYPE_HMAC == 1
PROXY_SSH_MAC_ALGO_TYPE_UMAC64 == 2
PROXY_SSH_MAC_ALGO_TYPE_UMAC128 == 3

PROXY_SSH_MAC_FL_READ_MAC == 1
PROXY_SSH_MAC_FL_WRITE_MAC == 2

PROXY_SSH_ROLE_SERVER == "server"
PROXY_SSH_ROLE_CLIENT == "client"

\* a null pointer to a string, a digest or a pool
NULL == "NULL"

\* a null key pointer
NoKey == << >>

Slots == {0, 1}

----------------------------------------------------------------------------
(* The digests of the crypto library. *)

\* EVP_MD_size(): the output size of a digest, in bytes
EVP_MD_size(d) ==
  CASE d = "sha1"    -> 20
    [] d = "sha256"  -> 32
    [] d = "umac64"  -> 8
    [] d = "umac128" -> 16
    [] d = "null"    -> 0

\* EVP_MD_block_size(): the input block size of a digest, in bytes
EVP_MD_block_size(d) ==
  CASE d = "sha1"    -> 64
    [] d = "sha256"  -> 64
    [] d = "umac64"  -> 32
    [] d = "umac128" -> 64
    [] d = "null"    -> 0

\* The algorithm catalog: name -> digest and truncated tag length (0: none).
proxy_ssh_crypto_get_digest(algo) ==
  CASE algo = "hmac-sha2-256"        -> [digest |-> "sha256",  mac_len |-> 0]
    [] algo = "hmac-sha1-96"         -> [digest |-> "sha1",    mac_len |-> 12]
    [] algo = "umac-64@openssh.com"  -> [digest |-> "umac64",  mac_len |-> 8]
    [] algo = "umac-128@openssh.com" -> [digest |-> "umac128", mac_len |-> 16]
    [] algo = "none"                 -> [digest |-> "null",    mac_len |-> 0]
    [] OTHER                         -> [digest |-> NULL,      mac_len |-> 0]

\* The key buffer size: `first` rounded up to a multiple of `second`.
proxy_ssh_crypto_get_size(first, second) ==
  ((first + (second - 1)) \div second) * second

\* Whether the peer takes MAC keys of the digest's length (an interop feature).
proxy_ssh_interop_supports_feature(feat) == feat

----------------------------------------------------------------------------
(* Wire encodings of proxy/ssh/msg.c. *)

\* a 32-bit integer as 4 bytes, big-endian
proxy_ssh_msg_write_int(n) ==
  << (n \div 16777216) % 256, (n \div 65536) % 256, (n \div 256) % 256, n % 256 >>

\* a 64-bit integer as 8 bytes, big-endian; n is a uint32_t widened, so the
\* upper four bytes are zero
proxy_ssh_msg_write_long(n) ==
  << 0, 0, 0, 0 >> \o proxy_ssh_msg_write_int(n)

proxy_ssh_msg_write_byte(b) == << b % 256 >>

\* the first `len` bytes of `data`
proxy_ssh_msg_write_data(data, len) == SubSeq(data, 1, len)

----------------------------------------------------------------------------
(* The opaque primitives. *)

\* One output of the key-exchange digest md over K || H || letter || id || prev.
\* (The first derivation block has prev empty; an extension block has no
\* letter and no id.)
EVP_Digest(md, k, h, letter, id, prev) ==
  [md |-> md, K |-> k, H |-> h, letter |-> letter, id |-> id, prev |-> prev]

\* a block of a key buffer after pr_memscrub()
ZeroBlock == EVP_Digest("zero", "", "", "", "", << >>)

\* a block of a key buffer as malloc() returns it
UninitBlock == EVP_Digest("uninit", "", "", "", "", << >>)

\* pr_memscrub(): every byte of the buffer is zeroed
pr_memscrub(buf) == [i \in DOMAIN buf |-> ZeroBlock]

\* The blocks a buffer holds.
BlocksOf(buf) == {buf[i] : i \in DOMAIN buf}

\* The first n bytes of a key buffer whose blocks are of mdsz bytes each.
KeyBytes(key, mdsz, n) ==
  [blocks |-> SubSeq(key, 1, (n + mdsz - 1) \div mdsz), n |-> n]

\* The inputs of one run of a keyed primitive.
PrfInput(fam, key, md, buf, nonce) ==
  [fam |-> fam, key |-> key, md |-> md, buf |-> buf, nonce |-> nonce]

\* The first n bytes of the output of the primitive run on `src`.
PrfOutput(src, n) == [src |-> src, pos |-> [i \in 1..n |-> i]]

\* HMAC_Final(): the EVP_MD_size(md) bytes of HMAC-md under `key` over `buf`
HMAC_Final(key, md, buf) ==
  PrfOutput(PrfInput("hmac", key, md, buf, << >>), EVP_MD_size(md))

\* proxy_ssh_umac_final(): the 8 bytes of UMAC-64 under `key` over `buf` with `nonce`
proxy_ssh_umac_final(key, buf, nonce) ==
  PrfOutput(PrfInput("umac64", key, "umac64", buf, nonce), 8)

\* proxy_ssh_umac128_final(): the 16 bytes of UMAC-128
proxy_ssh_umac128_final(key, buf, nonce) ==
  PrfOutput(PrfInput("umac128", key, "umac128", buf, nonce), 16)

\* no output: the source of a byte string that holds no byte of a primitive
NoSrc == PrfInput("", [blocks |-> << >>, n |-> 0], "", << >>, << >>)

\* the empty byte string, and a null tag pointer
NoTag == [src |-> NoSrc, pos |-> << >>]

\* a byte that no primitive produced, as a position of a byte string
JunkByte == -1

\* a zero byte, as a position of a byte string
ZeroByte == 0

\* the number of bytes of a byte string
TagLen(t) == Len(t.pos)

\* The first n bytes of the byte string t.
TagPrefix(t, n) ==
  LET pos == SubSeq(t.pos, 1, n)
  IN [src |-> IF \E i \in DOMAIN pos : pos[i] > 0 THEN t.src ELSE NoSrc,
      pos |-> pos]

----------------------------------------------------------------------------
(* The state of one slot and of its primitive contexts. *)

\* struct proxy_ssh_mac as the static initialisers leave it
EmptyMac ==
  [pool |-> NULL, algo |-> NULL, algo_type |-> 0, digest |-> NULL,
   key |-> NoKey, keysz |-> 0, key_len |-> 0, mac_len |-> 0]

NoKeyBytes == [blocks |-> << >>, n |-> 0]

\* an HMAC_CTX pointer that is NULL
HmacNull == [state |-> "null", key |-> NoKeyBytes, md |-> NULL]

\* HMAC_CTX_new() and HMAC_CTX_reset(): a context holding neither key nor digest
HMAC_CTX_reset(ctx) == [state |-> "new", key |-> NoKeyBytes, md |-> NULL]

\* HMAC_Init_ex(ctx, key, len, md, NULL) == 1, and the context it leaves.
\* With key and md NULL the context's own key and digest are used again, which
\* needs a context that holds them; a new digest needs a key.
HMAC_Init_ex(ctx, key, len, md, prim_ok) ==
  IF ~prim_ok THEN [ok |-> FALSE, ctx |-> ctx]
  ELSE IF md = NULL
    THEN [ok |-> ctx.state = "keyed", ctx |-> ctx]
  ELSE IF key = NoKey
    THEN [ok |-> ctx.state = "keyed" /\ ctx.md = md, ctx |-> ctx]
  ELSE [ok |-> TRUE,
        ctx |-> [state |-> "keyed",
                 key |-> KeyBytes(key, EVP_MD_size(key[1].md), len),
                 md |-> md]]

\* a struct umac_ctx pointer that is NULL
UmacNull == [state |-> "null", type |-> 0, key |-> NoKeyBytes]

\* proxy_ssh_umac_alloc(), proxy_ssh_umac128_alloc()
proxy_ssh_umac_alloc(type) == [state |-> "alloc", type |-> type, key |-> NoKeyBytes]

\* proxy_ssh_umac_reset(), proxy_ssh_umac128_reset(): the hashing state is
\* reset, the key schedule stays
proxy_ssh_umac_reset(ctx) == ctx

\* proxy_ssh_umac_init(), proxy_ssh_umac128_init(): keyed with the first 16
\* bytes at `key`
proxy_ssh_umac_init(ctx, key) ==
  [ctx EXCEPT !.state = "keyed",
              !.key = IF key = NoKey THEN NoKeyBytes
                      ELSE KeyBytes(key, EVP_MD_size(key[1].md), 16)]

get_next_index(idx) == IF idx = 1 THEN 0 ELSE 1

\* free() without the scrub: the mutant of clear_mac
clear_mac_noscrub(mac) ==
  IF mac.key # NoKey
    THEN [mac |-> [mac EXCEPT !.key = NoKey, !.keysz = 0, !.key_len = 0,
                              !.digest = NULL, !.algo = NULL],
          freed |-> BlocksOf(mac.key)]
    ELSE [mac |-> [mac EXCEPT !.digest = NULL, !.algo = NULL], freed |-> {}]

\* clear_mac(): the slot after it, and the buffers it handed to free()
clear_mac(mac) ==
  IF mac.key # NoKey
    THEN [mac |-> [mac EXCEPT !.key = NoKey, !.keysz = 0, !.key_len = 0,
                              !.digest = NULL, !.algo = NULL],
          freed |-> BlocksOf(pr_memscrub(mac.key))]
    ELSE [mac |-> [mac EXCEPT !.digest = NULL, !.algo = NULL], freed |-> {}]

\* the index flipped, the old slot left as it is: a mutant of switch_mac
switch_mac_noclear(macs, hmacs, umacs, idx) ==
  IF macs[idx].key # NoKey
    THEN [macs |-> macs, hmacs |-> hmacs, umacs |-> umacs,
          idx |-> get_next_index(idx), freed |-> {}, switched |-> TRUE]
    ELSE [macs |-> macs, hmacs |-> hmacs, umacs |-> umacs, idx |-> idx,
          freed |-> {}, switched |-> FALSE]

\* the index flipped whether or not the active slot holds a key: a mutant of
\* switch_mac
switch_mac_always(macs, hmacs, umacs, idx) ==
  LET c == clear_mac(macs[idx]) IN
  [macs |-> [macs EXCEPT ![idx] = c.mac],
   hmacs |-> [hmacs EXCEPT ![idx] = HMAC_CTX_reset(hmacs[idx])],
   umacs |-> umacs, idx |-> get_next_index(idx), freed |-> c.freed,
   switched |-> TRUE]

\* switch_read_mac() and switch_write_mac(), on the arrays of one direction
switch_mac(macs, hmacs, umacs, idx) ==
  IF macs[idx].key # NoKey
    THEN LET c == clear_mac(macs[idx]) IN
         [macs |-> [macs EXCEPT ![idx] = c.mac],
          hmacs |-> [hmacs EXCEPT ![idx] = HMAC_CTX_reset(hmacs[idx])],
          umacs |-> [umacs EXCEPT ![idx] =
                       IF macs[idx].algo_type \in {PROXY_SSH_MAC_ALGO_TYPE_UMAC64,
                                                   PROXY_SSH_MAC_ALGO_TYPE_UMAC128}
                         THEN proxy_ssh_umac_reset(umacs[idx]) ELSE umacs[idx]],
          idx |-> get_next_index(idx),
          freed |-> c.freed,
          switched |-> TRUE]
    ELSE [macs |-> macs, hmacs |-> hmacs, umacs |-> umacs, idx |-> idx,
          freed |-> {}, switched |-> FALSE]

\* set_algorithm always on the active slot: the mutant of TargetIndex
TargetIndex_active(macs, idx) == idx

\* The slot set_algorithm writes: the other one when the active slot holds a key.
TargetIndex(macs, idx) ==
  IF macs[idx].key # NoKey THEN get_next_index(idx) ELSE idx

\* the slot retired as well: the mutant of UnresolvedSlot
UnresolvedSlot_cleared(mac) ==
  [mac EXCEPT !.key = NoKey, !.keysz = 0, !.key_len = 0, !.digest = NULL,
              !.algo = NULL]

\* The slot set_algorithm leaves when the catalog does not hold the name: the
\* digest is null, the rest as it was.
UnresolvedSlot(mac) == [mac EXCEPT !.digest = NULL]

\* set_algorithm on the slot idx of the arrays of one direction
set_algo_at(macs, umacs, idx, algo) ==
  LET umacs1 == IF umacs[idx].state # "null"
                   /\ macs[idx].algo_type \in {PROXY_SSH_MAC_ALGO_TYPE_UMAC64,
                                               PROXY_SSH_MAC_ALGO_TYPE_UMAC128}
                  THEN [umacs EXCEPT ![idx] = UmacNull] ELSE umacs
      d == proxy_ssh_crypto_get_digest(algo)
  IN IF d.digest = NULL
       THEN [res |-> -1, macs |-> [macs EXCEPT ![idx] = UnresolvedSlot(macs[idx])],
             umacs |-> umacs1]
       ELSE LET type == IF algo = "umac-64@openssh.com"
                          THEN PROXY_SSH_MAC_ALGO_TYPE_UMAC64
                        ELSE IF algo = "umac-128@openssh.com"
                          THEN PROXY_SSH_MAC_ALGO_TYPE_UMAC128
                        ELSE PROXY_SSH_MAC_ALGO_TYPE_HMAC
            IN [res |-> 0,
                macs |-> [macs EXCEPT ![idx].digest = d.digest,
                                      ![idx].pool = "pool",
                                      ![idx].algo = algo,
                                      ![idx].algo_type = type,
                                      ![idx].mac_len = d.mac_len],
                umacs |-> IF type = PROXY_SSH_MAC_ALGO_TYPE_HMAC THEN umacs1
                          ELSE [umacs1 EXCEPT ![idx] = proxy_ssh_umac_alloc(type)]]

\* the keyed generation retired when the next one is named: the mutant of set_algo
set_algo_retiring(macs, umacs, active, algo) ==
  set_algo_at([macs EXCEPT ![active] = clear_mac(macs[active]).mac], umacs,
              active, algo)

\* proxy_ssh_mac_set_read_algo() and proxy_ssh_mac_set_write_algo(), on the
\* arrays of one direction
set_algo(macs, umacs, active, algo) ==
  set_algo_at(macs, umacs, TargetIndex(macs, active), algo)

----------------------------------------------------------------------------
(* Key derivation. *)

RECURSIVE ExtendKey_noprev(_, _, _, _, _)
\* the key so far left out of the hash: the mutant of ExtendKey
ExtendKey_noprev(key, md, k, h, nblocks) ==
  IF Len(key) >= nblocks THEN key
  ELSE ExtendKey_noprev(Append(key, EVP_Digest(md, k, h, "", "", << >>)), md, k, h,
                        nblocks)

RECURSIVE ExtendKey(_, _, _, _, _)
\* The while loop of set_mac_key(): blocks HASH(K || H || key so far) are
\* appended until the buffer holds nblocks of them.
ExtendKey(key, md, k, h, nblocks) ==
  IF Len(key) >= nblocks THEN key
  ELSE ExtendKey(Append(key, EVP_Digest(md, k, h, "", "", key)), md, k, h, nblocks)

\* free() without pr_memscrub(): the mutant of DiscardKey
DiscardKey_noscrub(buf) == BlocksOf(buf)

\* pr_memscrub(key, key_sz); free(key): the blocks handed to free(), as they
\* are then
DiscardKey(buf) == BlocksOf(pr_memscrub(buf))

\* The places where a digest call of set_mac_key() can fail.
FailPoints == {"none", "first", "final", "round"}

\* set_mac_key(): its return value, the slot after it, the buffers it handed to
\* free() and whether the process ended.  `fail` is the digest call that fails,
\* `feat` the interop feature, `ub` what the build makes of a null dereference.
set_mac_key(mac, md, k, h, letter, id, fail, feat, ub) ==
  IF mac.digest = NULL
    THEN \* EVP_MD_block_size(NULL)
         [res |-> -1, mac |-> mac, freed |-> {}, crash |-> (ub = "crash")]
  ELSE
  LET key_sz == proxy_ssh_crypto_get_size(EVP_MD_block_size(mac.digest), EVP_MD_size(md))
      nblocks == key_sz \div EVP_MD_size(md)
      buf == [i \in 1..nblocks |-> UninitBlock]
      first == << EVP_Digest(md, k, h, letter, id, << >>) >>
      key == ExtendKey(first, md, k, h, nblocks)
      \* the buffer when a digest call of the last round fails: the blocks of
      \* the rounds before it are written
      partial == [i \in 1..nblocks |-> IF i < nblocks THEN key[i] ELSE UninitBlock]
      key_len == IF ~proxy_ssh_interop_supports_feature(feat) THEN 16
                 ELSE IF mac.algo_type = PROXY_SSH_MAC_ALGO_TYPE_HMAC
                   THEN EVP_MD_size(mac.digest)
                 ELSE IF mac.algo_type \in {PROXY_SSH_MAC_ALGO_TYPE_UMAC64,
                                            PROXY_SSH_MAC_ALGO_TYPE_UMAC128}
                   THEN EVP_MD_block_size(mac.digest)
                 ELSE mac.key_len
  IN IF key_sz = 0
       THEN IF mac.algo = NULL
              THEN [res |-> -1, mac |-> mac, freed |-> {}, crash |-> TRUE]
            ELSE IF mac.algo = "none"
              THEN [res |-> 0, mac |-> mac, freed |-> {}, crash |-> FALSE]
            ELSE [res |-> -1, mac |-> mac, freed |-> {}, crash |-> FALSE]
     ELSE IF fail = "first"
       THEN [res |-> -1, mac |-> mac, freed |-> BlocksOf(buf), crash |-> FALSE]
     ELSE IF fail = "final"
       THEN [res |-> -1, mac |-> mac, freed |-> DiscardKey(buf), crash |-> FALSE]
     ELSE IF fail = "round" /\ nblocks > 1
       THEN [res |-> -1, mac |-> mac, freed |-> DiscardKey(partial), crash |-> FALSE]
     ELSE [res |-> 0,
           mac |-> [mac EXCEPT !.key = key, !.keysz = key_sz, !.key_len = key_len],
           freed |-> {}, crash |-> FALSE]

\* init_mac(): its return value, the two contexts after it and whether the
\* process ended.
init_mac(mac, hmac_ctx, umac_ctx, prim_ok, ub) ==
  IF mac.algo = NULL
    THEN [res |-> -1, hmac |-> hmac_ctx, umac |-> umac_ctx, crash |-> TRUE]
  ELSE IF mac.algo = "none"
    THEN [res |-> 0, hmac |-> hmac_ctx, umac |-> umac_ctx, crash |-> FALSE]
  ELSE IF mac.algo_type = PROXY_SSH_MAC_ALGO_TYPE_HMAC
    THEN LET r == HMAC_Init_ex(HMAC_CTX_reset(hmac_ctx), mac.key, mac.key_len,
                               mac.digest, prim_ok)
         IN [res |-> IF r.ok THEN 0 ELSE -1, hmac |-> r.ctx, umac |-> umac_ctx,
             crash |-> FALSE]
  ELSE IF umac_ctx.state = "null"
    THEN [res |-> -1, hmac |-> HMAC_CTX_reset(hmac_ctx), umac |-> umac_ctx,
          crash |-> TRUE]
  ELSE [res |-> 0, hmac |-> HMAC_CTX_reset(hmac_ctx),
        umac |-> proxy_ssh_umac_init(proxy_ssh_umac_reset(umac_ctx), mac.key),
        crash |-> mac.key = NoKey /\ ub = "crash"]

\* the read letter taken as the write letter is: the mutant of ReadLetter
ReadLetter_aswrite(role) == IF role = PROXY_SSH_ROLE_CLIENT THEN "E" ELSE "F"

\* The derivation letter of the read direction.
ReadLetter(role) == IF role = PROXY_SSH_ROLE_CLIENT THEN "F" ELSE "E"

\* The derivation letter of the write direction.
WriteLetter(role) == IF role = PROXY_SSH_ROLE_CLIENT THEN "E" ELSE "F"

\* The inputs of one set_key call: the key exchange's digest, K, H and session
\* id, the role, the digest call that fails (fail), whether HMAC_Init_ex()
\* works (prim_ok), the interop feature (feat) and what the build makes of a
\* null dereference (ub).
KeyInputs ==
  [md : {"sha256"}, k : {"K1", "K2"}, h : {"H"}, id : {"sid"},
   role : {PROXY_SSH_ROLE_CLIENT, PROXY_SSH_ROLE_SERVER},
   fail : FailPoints, prim_ok : BOOLEAN, feat : {TRUE}, ub : {"crash", "error"}]

\* The inputs of KeyInputs that set_key can tell apart when the slot it keys is
\* `mac`: a failing digest call needs a derivation that runs (and "round" one
\* that extends the key), a failing HMAC_Init_ex() an HMAC slot, and ub a null
\* pointer on the way.  The K of a second key exchange is drawn under one role.
KeyInputsAt(mac) ==
  LET derives == mac.digest # NULL /\ EVP_MD_block_size(mac.digest) > 0
      null == mac.digest = NULL /\ mac.algo # NULL
  IN {in \in KeyInputs :
        /\ in.k = "K2" => in.role = PROXY_SSH_ROLE_CLIENT
        /\ in.fail # "none" => derives /\ in.prim_ok
        /\ in.fail = "round" =>
              proxy_ssh_crypto_get_size(EVP_MD_block_size(mac.digest),
                                        EVP_MD_size(in.md)) > EVP_MD_size(in.md)
        /\ ~in.prim_ok =>
              derives /\ mac.algo_type = PROXY_SSH_MAC_ALGO_TYPE_HMAC
        /\ in.ub = "error" =>
              null \/ (in.fail # "none" /\ mac.algo_type # PROXY_SSH_MAC_ALGO_TYPE_HMAC)}

\* The return value of set_key: that of set_mac_key() is dropped.
KeyResult(k, i) == i.res

\* proxy_ssh_mac_set_read_key() and proxy_ssh_mac_set_write_key() up to the
\* block size, on the arrays of one direction: the generation switch, then the
\* derivation into the slot that is active after it, then init_mac().
set_key(macs, hmacs, umacs, idx, letter, in) ==
  LET s == switch_mac(macs, hmacs, umacs, idx)
      k == set_mac_key(s.macs[s.idx], in.md, in.k, in.h, letter, in.id, in.fail,
                       in.feat, in.ub)
      i == init_mac(k.mac, s.hmacs[s.idx], s.umacs[s.idx], in.prim_ok, in.ub)
  IN IF k.crash
       THEN [res |-> -1, crash |-> TRUE, macs |-> s.macs, hmacs |-> s.hmacs,
             umacs |-> s.umacs, idx |-> s.idx, freed |-> s.freed \cup k.freed,
             derived |-> k.res]
       ELSE [res |-> KeyResult(k, i), crash |-> i.crash,
             macs |-> [s.macs EXCEPT ![s.idx] = k.mac],
             hmacs |-> [s.hmacs EXCEPT ![s.idx] = i.hmac],
             umacs |-> [s.umacs EXCEPT ![s.idx] = i.umac],
             idx |-> s.idx, freed |-> s.freed \cup k.freed, derived |-> k.res]

----------------------------------------------------------------------------
(* Compute and verify. *)

\* EVP_MAX_MD_SIZE: the size of the mac_data buffer
EVP_MAX_MD_SIZE == 64

\* mac_data, zero-filled, after the primitive wrote `out` at its start
MacData(out) ==
  [src |-> out.src,
   pos |-> [i \in 1..EVP_MAX_MD_SIZE |->
              IF i <= TagLen(out) THEN out.pos[i] ELSE ZeroByte]]

\* memcmp(a, b, n) == 0, where b holds TagLen(b) bytes.  Reading past the end
\* of b is undefined: `oob` is what the bytes found there compare as.
memcmp_equal(a, b, n, oob) ==
  IF TagLen(b) >= n THEN TagPrefix(a, n) = TagPrefix(b, n)
  ELSE TagPrefix(a, TagLen(b)) = TagPrefix(b, TagLen(b)) /\ oob = "equal"

\* What a build's memcmp() does with the bytes it is handed: the C library
\* promises only the result, so it may stop at the first differing byte or
\* read all n.
MemcmpBuilds == {"early", "full"}

\* The number of bytes memcmp(a, b, n) reads of each buffer before it returns,
\* where b holds at least n bytes.
memcmp_examined(a, b, n, build) ==
  LET differ == {i \in 1..n : TagPrefix(a, i) # TagPrefix(b, i)}
  IN IF build = "full" \/ differ = {} THEN n
     ELSE CHOOSE i \in differ : \A j \in differ : i <= j

\* the buffer without the sequence number: the mutant of HmacBuffer
HmacBuffer_noseqno(p) ==
  proxy_ssh_msg_write_int(p.packet_len)
    \o proxy_ssh_msg_write_byte(p.padding_len)
    \o proxy_ssh_msg_write_data(p.payload, Len(p.payload))
    \o proxy_ssh_msg_write_data(p.padding, p.padding_len)

\* The buffer an HMAC authenticates.
HmacBuffer(p) ==
  proxy_ssh_msg_write_int(p.seqno) \o proxy_ssh_msg_write_int(p.packet_len)
    \o proxy_ssh_msg_write_byte(p.padding_len)
    \o proxy_ssh_msg_write_data(p.payload, Len(p.payload))
    \o proxy_ssh_msg_write_data(p.padding, p.padding_len)

\* The buffer a UMAC authenticates.
UmacBuffer(p) ==
  proxy_ssh_msg_write_int(p.packet_len)
    \o proxy_ssh_msg_write_byte(p.padding_len)
    \o proxy_ssh_msg_write_data(p.payload, Len(p.payload))
    \o proxy_ssh_msg_write_data(p.padding, p.padding_len)

\* the whole mac_data buffer compared: the mutant of TagAccepted
TagAccepted_whole(mac_data, p, mac_len, oob) ==
  memcmp_equal(mac_data, p.mac, EVP_MAX_MD_SIZE, oob)

\* The check a received tag passes: its first mac_len bytes are the computed ones.
TagAccepted(mac_data, p, mac_len, oob) ==
  memcmp_equal(mac_data, p.mac, mac_len, oob)

\* the output's own length kept: the mutant of TruncatedLen
TruncatedLen_never(mac, out_len) == out_len

\* The tag length get_mac() uses: the slot's mac_len when it is not 0, else the
\* length of the primitive's output.
TruncatedLen(mac, out_len) ==
  IF mac.mac_len # 0 THEN mac.mac_len ELSE out_len

\* get_mac(): its return value and the packet after it.
get_mac(p, mac, hmac_ctx, umac_ctx, flags, prim_ok, oob) ==
  LET hm == HMAC_Init_ex(hmac_ctx, NoKey, 0, NULL, prim_ok)
      out == IF mac.algo_type = PROXY_SSH_MAC_ALGO_TYPE_HMAC
               THEN HMAC_Final(hmac_ctx.key, hmac_ctx.md, HmacBuffer(p))
             ELSE IF mac.algo_type = PROXY_SSH_MAC_ALGO_TYPE_UMAC64
               THEN proxy_ssh_umac_final(umac_ctx.key, UmacBuffer(p),
                                         proxy_ssh_msg_write_long(p.seqno))
             ELSE IF mac.algo_type = PROXY_SSH_MAC_ALGO_TYPE_UMAC128
               THEN proxy_ssh_umac128_final(umac_ctx.key, UmacBuffer(p),
                                            proxy_ssh_msg_write_long(p.seqno))
             ELSE NoTag
      mac_data == MacData(out)
      mac_len == TruncatedLen(mac, TagLen(out))
  IN IF mac.algo_type = PROXY_SSH_MAC_ALGO_TYPE_HMAC /\ ~hm.ok
       THEN [res |-> -1, pkt |-> p]
     ELSE IF TagLen(out) = 0
       THEN [res |-> -1, pkt |-> [p EXCEPT !.mac = NoTag, !.mac_len = 0]]
     ELSE IF flags = PROXY_SSH_MAC_FL_READ_MAC
             /\ ~TagAccepted(mac_data, p, mac_len, oob)
       THEN [res |-> -1, pkt |-> p]
     ELSE [res |-> 0,
           pkt |-> [p EXCEPT !.mac = TagPrefix(mac_data, mac_len),
                             !.mac_len = mac_len]]

\* no early return for a keyless slot: the mutant of mac_data_op
mac_data_op_nokeycheck(p, macs, hmacs, umacs, idx, flags, prim_ok, oob) ==
  get_mac(p, macs[idx], hmacs[idx], umacs[idx], flags, prim_ok, oob)

\* proxy_ssh_mac_read_data() and proxy_ssh_mac_write_data(), on the active slot
\* of one direction
mac_data_op(p, macs, hmacs, umacs, idx, flags, prim_ok, oob) ==
  IF macs[idx].key = NoKey
    THEN [res |-> 0, pkt |-> [p EXCEPT !.mac = NoTag, !.mac_len = 0]]
    ELSE get_mac(p, macs[idx], hmacs[idx], umacs[idx], flags, prim_ok, oob)

\* verify, in the current state of the read direction
read_data(p, prim_ok, oob) ==
  mac_data_op(p, read_macs, hmac_read_ctxs, umac_read_ctxs, read_mac_idx,
              PROXY_SSH_MAC_FL_READ_MAC, prim_ok, oob)

\* compute, in the current state of the write direction
write_data(p, prim_ok) ==
  mac_data_op(p, write_macs, hmac_write_ctxs, umac_write_ctxs, write_mac_idx,
              PROXY_SSH_MAC_FL_WRITE_MAC, prim_ok, "differ")

----------------------------------------------------------------------------
(* Inputs. *)

\* The algorithm names a key exchange hands to set_algorithm; "bogus" is a name
\* the catalog does not hold.
AlgoNames ==
  {"none", "hmac-sha2-256", "hmac-sha1-96", "umac-64@openssh.com",
   "umac-128@openssh.com", "bogus"}

\* no packet: the caller holds none outside read_data/write_data
EmptyPacket ==
  [seqno |-> 0, packet_len |-> 0, padding_len |-> 0, payload |-> << >>,
   padding |-> << >>, mac |-> NoTag, mac_len |-> 0]

BasePacket ==
  [seqno |-> 0, packet_len |-> 4, padding_len |-> 2, payload |-> << 7 >>,
   padding |-> << 9, 9 >>, mac |-> NoTag, mac_len |-> 0]

\* The base packet under two sequence numbers: the packets the operations are
\* called with.
SentPackets == {[BasePacket EXCEPT !.seqno = n] : n \in {0, 1}}

\* The packets of SentPackets and those that differ from one in one more field.
Packets ==
  SentPackets
    \cup {[BasePacket EXCEPT !.packet_len = 5],
          [BasePacket EXCEPT !.padding_len = 1],
          [BasePacket EXCEPT !.payload = << 8 >>],
          [BasePacket EXCEPT !.padding = << 10, 9 >>]}

\* The tags a reader can be handed when the tag `t` was sent: t itself, t
\* without its last byte, t with a byte appended, t with its last byte changed.
ReceivedTags(t) ==
  IF TagLen(t) = 0 THEN {NoTag, [src |-> NoSrc, pos |-> << JunkByte >>]}
  ELSE {t,
        TagPrefix(t, TagLen(t) - 1),
        [t EXCEPT !.pos = Append(t.pos, JunkByte)],
        TagPrefix([t EXCEPT !.pos[TagLen(t)] = JunkByte], TagLen(t))}

\* The packet p carrying the tag t.
Tagged(p, t) == [p EXCEPT !.mac = t, !.mac_len = TagLen(t)]

----------------------------------------------------------------------------
(* The operations. *)

Init ==
  /\ read_macs = [i \in Slots |-> EmptyMac]
  /\ hmac_read_ctxs = [i \in Slots |-> HmacNull]
  /\ umac_read_ctxs = [i \in Slots |-> UmacNull]
  /\ write_macs = [i \in Slots |-> EmptyMac]
  /\ hmac_write_ctxs = [i \in Slots |-> HmacNull]
  /\ umac_write_ctxs = [i \in Slots |-> UmacNull]
  /\ mac_blockszs = [i \in Slots |-> 0]
  /\ read_mac_idx = 0
  /\ write_mac_idx = 0
  /\ freed = {}
  /\ pkt = EmptyPacket
  /\ ret = [fn |-> "none", res |-> 0]
  /\ phase = "static"
  /\ ncalls = [read |-> 0, write |-> 0]

proxy_ssh_mac_init ==
  /\ phase = "static"
  /\ phase' = "running"
  /\ hmac_read_ctxs' = [i \in Slots |-> HMAC_CTX_reset(HmacNull)]
  /\ hmac_write_ctxs' = [i \in Slots |-> HMAC_CTX_reset(HmacNull)]
  /\ umac_read_ctxs' = [i \in Slots |-> UmacNull]
  /\ umac_write_ctxs' = [i \in Slots |-> UmacNull]
  /\ ret' = [fn |-> "init", res |-> 0]
  /\ UNCHANGED << read_macs, write_macs, mac_blockszs, read_mac_idx, write_mac_idx,
                  freed, pkt, ncalls >>

\* HMAC_CTX_free()
HMAC_CTX_free(ctx) == [state |-> "freed", key |-> NoKeyBytes, md |-> NULL]

proxy_ssh_mac_free ==
  /\ phase = "running"
  /\ phase' = "freed"
  /\ hmac_read_ctxs' = [i \in Slots |-> HMAC_CTX_free(hmac_read_ctxs[i])]
  /\ hmac_write_ctxs' = [i \in Slots |-> HMAC_CTX_free(hmac_write_ctxs[i])]
  /\ ret' = [fn |-> "free", res |-> 0]
  /\ pkt' = EmptyPacket
  /\ UNCHANGED << read_macs, umac_read_ctxs, write_macs, umac_write_ctxs,
                  mac_blockszs, read_mac_idx, write_mac_idx, freed, ncalls >>

proxy_ssh_mac_set_read_algo(algo) ==
  /\ phase = "running"
  /\ ncalls.read < MaxCalls
  /\ LET r == set_algo(read_macs, umac_read_ctxs, read_mac_idx, algo) IN
       /\ read_macs' = r.macs
       /\ umac_read_ctxs' = r.umacs
       /\ ret' = [fn |-> "set_read_algo", res |-> r.res]
  /\ ncalls' = [ncalls EXCEPT !.read = @ + 1]
  /\ pkt' = EmptyPacket
  /\ UNCHANGED << hmac_read_ctxs, write_macs, hmac_write_ctxs, umac_write_ctxs,
                  mac_blockszs, read_mac_idx, write_mac_idx, freed, phase >>

proxy_ssh_mac_set_write_algo(algo) ==
  /\ phase = "running"
  /\ ncalls.write < MaxCalls
  /\ LET r == set_algo(write_macs, umac_write_ctxs, write_mac_idx, algo) IN
       /\ write_macs' = r.macs
       /\ umac_write_ctxs' = r.umacs
       /\ ret' = [fn |-> "set_write_algo", res |-> r.res]
  /\ ncalls' = [ncalls EXCEPT !.write = @ + 1]
  /\ pkt' = EmptyPacket
  /\ UNCHANGED << read_macs, hmac_read_ctxs, umac_read_ctxs, hmac_write_ctxs,
                  mac_blockszs, read_mac_idx, write_mac_idx, freed, phase >>

\* proxy_ssh_mac_get_block_size()
proxy_ssh_mac_get_block_size == mac_blockszs[read_mac_idx]

\* proxy_ssh_mac_get_read_algo() when `mac` is the active read slot: the name
\* returned and whether the process ended.  strcmp() is handed the slot's
\* name when the slot holds no key: a null name is a null dereference, which
\* ends the process or compares as unequal.
get_read_algo(mac, ub) ==
  IF mac.key # NoKey THEN [name |-> mac.algo, crash |-> FALSE]
  ELSE IF mac.algo = NULL THEN [name |-> NULL, crash |-> (ub = "crash")]
  ELSE IF mac.algo = "none" THEN [name |-> mac.algo, crash |-> FALSE]
  ELSE [name |-> NULL, crash |-> FALSE]

\* proxy_ssh_mac_get_write_algo() when `mac` is the active write slot
get_write_algo(mac, ub) ==
  IF mac.key # NoKey THEN [name |-> mac.algo, crash |-> FALSE]
  ELSE [name |-> NULL, crash |-> FALSE]

\* A call of proxy_ssh_mac_get_block_size(): ret.res is the size returned.
GetBlockSize ==
  /\ phase \in {"static", "running"}
  /\ ret' = [fn |-> "get_block_size", res |-> proxy_ssh_mac_get_block_size]
  /\ pkt' = EmptyPacket
  /\ UNCHANGED << read_macs, hmac_read_ctxs, umac_read_ctxs, write_macs,
                  hmac_write_ctxs, umac_write_ctxs, mac_blockszs, read_mac_idx,
                  write_mac_idx, freed, phase, ncalls >>

\* A call of proxy_ssh_mac_get_read_algo(): ret.res is the name returned.
proxy_ssh_mac_get_read_algo(ub) ==
  /\ phase \in {"static", "running"}
  /\ LET r == get_read_algo(read_macs[read_mac_idx], ub) IN
       /\ ret' = [fn |-> "get_read_algo", res |-> r.name]
       /\ phase' = IF r.crash THEN "crashed" ELSE phase
  /\ pkt' = EmptyPacket
  /\ UNCHANGED << read_macs, hmac_read_ctxs, umac_read_ctxs, write_macs,
                  hmac_write_ctxs, umac_write_ctxs, mac_blockszs, read_mac_idx,
                  write_mac_idx, freed, ncalls >>

\* A call of proxy_ssh_mac_get_write_algo(): ret.res is the name returned.
proxy_ssh_mac_get_write_algo(ub) ==
  /\ phase \in {"static", "running"}
  /\ LET r == get_write_algo(write_macs[write_mac_idx], ub) IN
       /\ ret' = [fn |-> "get_write_algo", res |-> r.name]
       /\ phase' = IF r.crash THEN "crashed" ELSE phase
  /\ pkt' = EmptyPacket
  /\ UNCHANGED << read_macs, hmac_read_ctxs, umac_read_ctxs, write_macs,
                  hmac_write_ctxs, umac_write_ctxs, mac_blockszs, read_mac_idx,
                  write_mac_idx, freed, ncalls >>

\* the size stored whether larger or not: the mutant of proxy_ssh_mac_set_block_size
proxy_ssh_mac_set_block_size_always(blockszs, idx, blocksz) ==
  [blockszs EXCEPT ![idx] = blocksz]

\* proxy_ssh_mac_set_block_size(), on mac_blockszs with the read index idx
proxy_ssh_mac_set_block_size(blockszs, idx, blocksz) ==
  IF blocksz > blockszs[idx] THEN [blockszs EXCEPT ![idx] = blocksz] ELSE blockszs

\* (size_t) -1, at the width of TLC's integers
SIZE_MAX == 2147483647

\* The slot set_key derives into: the one that is active after the switch.
KeyedSlot(macs, idx) ==
  IF macs[idx].key # NoKey THEN macs[get_next_index(idx)] ELSE macs[idx]

proxy_ssh_mac_set_read_key(in) ==
  /\ phase = "running"
  /\ ncalls.read < MaxCalls
  /\ LET r == set_key(read_macs, hmac_read_ctxs, umac_read_ctxs, read_mac_idx,
                      ReadLetter(in.role), in)
         mac == r.macs[r.idx]
         \* switch_read_mac() resets the size tracked for the retired slot
         blockszs1 == IF r.idx # read_mac_idx
                        THEN [mac_blockszs EXCEPT ![read_mac_idx] = 0]
                        ELSE mac_blockszs
         \* EVP_MD_size(NULL) is reached when the digest was never resolved
         nodigest == ~r.crash /\ r.res = 0 /\ mac.mac_len = 0 /\ mac.digest = NULL
         blocksz == IF mac.mac_len # 0 THEN mac.mac_len
                    ELSE IF mac.digest = NULL THEN SIZE_MAX
                    ELSE EVP_MD_size(mac.digest)
     IN
       /\ read_macs' = r.macs
       /\ hmac_read_ctxs' = r.hmacs
       /\ umac_read_ctxs' = r.umacs
       /\ read_mac_idx' = r.idx
       /\ freed' = freed \cup r.freed
       /\ phase' = IF r.crash \/ (nodigest /\ in.ub = "crash")
                     THEN "crashed" ELSE phase
       /\ mac_blockszs' = IF r.crash \/ r.res < 0 \/ (nodigest /\ in.ub = "crash")
                            THEN blockszs1
                            ELSE proxy_ssh_mac_set_block_size(blockszs1, r.idx, blocksz)
       /\ ret' = [fn |-> "set_read_key", res |-> r.res]
  /\ ncalls' = [ncalls EXCEPT !.read = @ + 1]
  /\ pkt' = EmptyPacket
  /\ UNCHANGED << write_macs, hmac_write_ctxs, umac_write_ctxs, write_mac_idx >>

\* the size tracked for the read direction raised by the write key: the mutant
\* of proxy_ssh_mac_set_write_key
proxy_ssh_mac_set_write_key_blocksz(in) ==
  /\ phase = "running"
  /\ ncalls.write < MaxCalls
  /\ LET r == set_key(write_macs, hmac_write_ctxs, umac_write_ctxs, write_mac_idx,
                      WriteLetter(in.role), in)
         mac == r.macs[r.idx]
         blocksz == IF mac.mac_len # 0 THEN mac.mac_len
                    ELSE IF mac.digest = NULL THEN 0
                    ELSE EVP_MD_size(mac.digest)
     IN
       /\ write_macs' = r.macs
       /\ hmac_write_ctxs' = r.hmacs
       /\ umac_write_ctxs' = r.umacs
       /\ write_mac_idx' = r.idx
       /\ freed' = freed \cup r.freed
       /\ phase' = IF r.crash THEN "crashed" ELSE phase
       /\ mac_blockszs' = proxy_ssh_mac_set_block_size(mac_blockszs, read_mac_idx,
                                                       blocksz)
       /\ ret' = [fn |-> "set_write_key", res |-> r.res]
  /\ ncalls' = [ncalls EXCEPT !.write = @ + 1]
  /\ pkt' = EmptyPacket
  /\ UNCHANGED << read_macs, hmac_read_ctxs, umac_read_ctxs, read_mac_idx >>

proxy_ssh_mac_set_write_key(in) ==
  /\ phase = "running"
  /\ ncalls.write < MaxCalls
  /\ LET r == set_key(write_macs, hmac_write_ctxs, umac_write_ctxs, write_mac_idx,
                      WriteLetter(in.role), in)
     IN
       /\ write_macs' = r.macs
       /\ hmac_write_ctxs' = r.hmacs
       /\ umac_write_ctxs' = r.umacs
       /\ write_mac_idx' = r.idx
       /\ freed' = freed \cup r.freed
       /\ phase' = IF r.crash THEN "crashed" ELSE phase
       /\ ret' = [fn |-> "set_write_key", res |-> r.res]
  /\ ncalls' = [ncalls EXCEPT !.write = @ + 1]
  /\ pkt' = EmptyPacket
  /\ UNCHANGED << read_macs, hmac_read_ctxs, umac_read_ctxs, read_mac_idx,
                  mac_blockszs >>

proxy_ssh_mac_read_data(p, prim_ok, oob) ==
  /\ phase = "running"
  /\ LET r == read_data(p, prim_ok, oob) IN
       /\ pkt' = r.pkt
       /\ ret' = [fn |-> "read_data", res |-> r.res]
  /\ UNCHANGED << read_macs, hmac_read_ctxs, umac_read_ctxs, write_macs,
                  hmac_write_ctxs, umac_write_ctxs, mac_blockszs, read_mac_idx,
                  write_mac_idx, freed, phase, ncalls >>

proxy_ssh_mac_write_data(p, prim_ok) ==
  /\ phase = "running"
  /\ LET r == write_data(p, prim_ok) IN
       /\ pkt' = r.pkt
       /\ ret' = [fn |-> "write_data", res |-> r.res]
  /\ UNCHANGED << read_macs, hmac_read_ctxs, umac_read_ctxs, write_macs,
                  hmac_write_ctxs, umac_write_ctxs, mac_blockszs, read_mac_idx,
                  write_mac_idx, freed, phase, ncalls >>

\* The tag the peer attaches to p under the read direction's active generation:
\* the peer's write direction holds the key the key exchange gave both.
PeerTag(p) ==
  mac_data_op(p, read_macs, hmac_read_ctxs, umac_read_ctxs, read_mac_idx,
              PROXY_SSH_MAC_FL_WRITE_MAC, TRUE, "differ").pkt.mac

\* The tag this process's write direction attaches to p.
LocalTag(p) == write_data(p, TRUE).pkt.mac

\* The packets the framing layer hands to verify: the base packet with the tag
\* sent on it, by the peer or by this process, as sent or changed on the way,
\* and every packet of Packets with the tag the peer sent on the base packet.
Received ==
  {Tagged(BasePacket, t) :
     t \in ReceivedTags(PeerTag(BasePacket)) \cup {LocalTag(BasePacket)}}
    \cup {Tagged(q, PeerTag(BasePacket)) : q \in Packets}

\* Whether the HMAC primitive works in read_data/write_data of p on the slot:
\* only a keyed HMAC slot calls it, and its failure does not go by the packet,
\* so it is drawn for the base packet as sent.
PrimChoices(p, mac) ==
  IF /\ mac.key # NoKey /\ mac.algo_type = PROXY_SSH_MAC_ALGO_TYPE_HMAC
     /\ p \in {BasePacket, Tagged(BasePacket, PeerTag(BasePacket))}
    THEN BOOLEAN ELSE {TRUE}

\* What an out-of-bounds read can find: it happens when the received tag is
\* shorter than the computed one.
OobChoices(p) ==
  IF TagLen(p.mac) < TagLen(PeerTag(p)) THEN {"equal", "differ"} ELSE {"differ"}

\* The active read slot has neither a key nor a name.
ReadUnset ==
  read_macs[read_mac_idx].key = NoKey /\ read_macs[read_mac_idx].algo = NULL

SetReadAlgo == \E algo \in AlgoNames : proxy_ssh_mac_set_read_algo(algo)

SetWriteAlgo == \E algo \in AlgoNames : proxy_ssh_mac_set_write_algo(algo)

SetReadKey ==
  \E in \in KeyInputsAt(KeyedSlot(read_macs, read_mac_idx)) :
    proxy_ssh_mac_set_read_key(in)

SetWriteKey ==
  \E in \in KeyInputsAt(KeyedSlot(write_macs, write_mac_idx)) :
    proxy_ssh_mac_set_write_key(in)

\* verify of a received packet; the HMAC primitive fails, when it can, on the
\* base packet with the tag the peer sent on it
ReadData ==
  \E p \in Received :
    \E prim_ok \in PrimChoices(p, read_macs[read_mac_idx]), oob \in OobChoices(p) :
      proxy_ssh_mac_read_data(p, prim_ok, oob)

\* compute of a packet to send; the HMAC primitive fails, when it can, on the
\* base packet
WriteData ==
  \E p \in SentPackets :
    \E prim_ok \in PrimChoices(p, write_macs[write_mac_idx]) :
      proxy_ssh_mac_write_data(p, prim_ok)

\* the algorithm-name query of the read direction; what a null dereference
\* does is drawn when the active slot has neither a key nor a name
GetReadAlgo ==
  \E ub \in (IF ReadUnset THEN {"crash", "error"} ELSE {"crash"}) :
    proxy_ssh_mac_get_read_algo(ub)

\* the algorithm-name query of the write direction
GetWriteAlgo == proxy_ssh_mac_get_write_algo("crash")

\* The inputs of set_key with which nothing fails.
GoodKeyInputs(S) ==
  {in \in S : in.k = "K1" /\ in.fail = "none" /\ in.prim_ok /\ in.ub = "crash"}

\* The packets the write direction sends, looped back to the read direction.
LoopedBack == {Tagged(p, LocalTag(p)) : p \in SentPackets}

\* Both directions driven at once, as the two ends of one connection are: with
\* names the catalog holds, the K of one key exchange, no failing primitive,
\* and the read direction handed what the write direction sends.
Next ==
  \/ proxy_ssh_mac_init
  \/ /\ ncalls.read + ncalls.write < MaxBoth
     /\ \/ \E algo \in AlgoNames \ {"bogus"} : proxy_ssh_mac_set_read_algo(algo)
        \/ \E algo \in AlgoNames \ {"bogus"} : proxy_ssh_mac_set_write_algo(algo)
        \/ \E in \in GoodKeyInputs(KeyInputsAt(KeyedSlot(read_macs, read_mac_idx))) :
             proxy_ssh_mac_set_read_key(in)
        \/ \E in \in GoodKeyInputs(KeyInputsAt(KeyedSlot(write_macs, write_mac_idx))) :
             proxy_ssh_mac_set_write_key(in)
  \/ \E p \in LoopedBack : \E oob \in OobChoices(p) :
       proxy_ssh_mac_read_data(p, TRUE, oob)
  \/ \E p \in SentPackets : proxy_ssh_mac_write_data(p, TRUE)

Spec == Init /\ [][Next]_vars

\* The read direction alone.
NextRead ==
  \/ proxy_ssh_mac_init
  \/ proxy_ssh_mac_free
  \/ SetReadAlgo
  \/ SetReadKey
  \/ ReadData
  \/ GetReadAlgo
  \/ GetBlockSize

SpecRead == Init /\ [][NextRead]_vars

\* The write direction alone.
NextWrite ==
  \/ proxy_ssh_mac_init
  \/ proxy_ssh_mac_free
  \/ SetWriteAlgo
  \/ SetWriteKey
  \/ WriteData
  \/ GetWriteAlgo

SpecWrite == Init /\ [][NextWrite]_vars

\* The inputs of set_key under two key-exchange digests, nothing failing: with
\* SHA-1 (20 bytes) a key of 64 bytes takes four blocks, with SHA-256 two.
KdfInputs ==
  [md : {"sha1", "sha256"}, k : {"K1", "K2"}, h : {"H"}, id : {"sid"},
   role : {PROXY_SSH_ROLE_CLIENT, PROXY_SSH_ROLE_SERVER},
   fail : {"none"}, prim_ok : {TRUE}, feat : {TRUE}, ub : {"crash"}]

\* Key derivation on the read direction: every name of the catalog, every
\* input of KdfInputs.
NextKdf ==
  \/ proxy_ssh_mac_init
  \/ \E algo \in AlgoNames \ {"bogus"} : proxy_ssh_mac_set_read_algo(algo)
  \/ \E in \in KdfInputs : proxy_ssh_mac_set_read_key(in)

SpecKdf == Init /\ [][NextKdf]_vars

----------------------------------------------------------------------------
(* Properties. *)

\* The active slot of the read direction.
ReadActive == read_macs[read_mac_idx]

\* The active slot of the write direction.
WriteActive == write_macs[write_mac_idx]

\* The tag length of a slot's algorithm: the catalog's truncated length, or the
\* digest's output size.
EffectiveLen(mac) ==
  IF mac.mac_len # 0 THEN mac.mac_len ELSE EVP_MD_size(mac.digest)

\* verify of p on the read arrays (macs, hmacs, umacs, idx), no primitive failing
VerifyOn(p, macs, hmacs, umacs, idx) ==
  mac_data_op(p, macs, hmacs, umacs, idx, PROXY_SSH_MAC_FL_READ_MAC, TRUE, "differ")

\* compute of p on the write arrays (macs, hmacs, umacs, idx), no primitive failing
ComputeOn(p, macs, hmacs, umacs, idx) ==
  mac_data_op(p, macs, hmacs, umacs, idx, PROXY_SSH_MAC_FL_WRITE_MAC, TRUE, "differ")

\* The read direction's active generation is keyed and verifies what the peer
\* sends under it.
ReadGenerationWorks ==
  /\ ReadActive.key # NoKey
  /\ read_data(Tagged(BasePacket, PeerTag(BasePacket)), TRUE, "differ").res = 0

Opposite(role) ==
  IF role = PROXY_SSH_ROLE_CLIENT THEN PROXY_SSH_ROLE_SERVER ELSE PROXY_SSH_ROLE_CLIENT

\* C1: rekey in flight.  From a state whose active read slot holds a key, a
\* set_algorithm or a verify step on the read direction leaves the active
\* index, the active slot and its contexts as they were; and when that
\* generation verified its peer's packets before a set_algorithm, every packet
\* tagged under it still verifies after the set_algorithm, with its tag length.
C1_RekeyInFlight ==
  [][ (ret'.fn \in {"set_read_algo", "read_data"} /\ ReadActive.key # NoKey)
        => /\ read_mac_idx' = read_mac_idx
           /\ read_macs'[read_mac_idx] = ReadActive
           /\ hmac_read_ctxs'[read_mac_idx] = hmac_read_ctxs[read_mac_idx]
           /\ umac_read_ctxs'[read_mac_idx] = umac_read_ctxs[read_mac_idx]
           /\ (ret'.fn = "set_read_algo" /\ ReadGenerationWorks)
                => \A p \in SentPackets :
                     LET v == VerifyOn(Tagged(p, PeerTag(p)), read_macs',
                                       hmac_read_ctxs', umac_read_ctxs', read_mac_idx')
                     IN v.res = 0 /\ v.pkt.mac_len = EffectiveLen(ReadActive)
    ]_vars

\* C1 witness: a verify succeeded under the keyed active generation while the
\* other slot holds the algorithm of a pending rekey.
C1_Witness ==
  /\ ret.fn = "read_data" /\ ret.res = 0
  /\ ReadActive.key # NoKey
  /\ pkt.mac_len > 0
  /\ read_macs[get_next_index(read_mac_idx)].algo \notin {NULL, ReadActive.algo}

\* C2: generation switch.  A set_key on the write direction that starts with a
\* keyed active slot (A/K1) and ends with success and a derived key: the index
\* has flipped to the slot set_algorithm prepared (B), the old slot is keyless,
\* none of its key blocks reached free() unscrubbed, and the compute that
\* follows is made with B's digest and tag length under the new key.
C2_GenerationSwitch ==
  [][ (/\ ret'.fn = "set_write_key"
       /\ WriteActive.key # NoKey
       /\ phase' = "running" /\ ret'.res = 0
       /\ write_macs'[write_mac_idx'].key # NoKey)
        => LET new == write_macs'[write_mac_idx'] IN
           /\ write_mac_idx' = get_next_index(write_mac_idx)
           /\ write_macs'[write_mac_idx].key = NoKey
           /\ BlocksOf(WriteActive.key) \cap freed' = {}
           /\ ZeroBlock \in freed'
           /\ new.algo = write_macs[get_next_index(write_mac_idx)].algo
           /\ \A p \in SentPackets :
                LET w == ComputeOn(p, write_macs', hmac_write_ctxs', umac_write_ctxs',
                                   write_mac_idx')
                IN /\ w.res = 0
                   /\ w.pkt.mac_len = EffectiveLen(new)
                   /\ w.pkt.mac.src.md = new.digest
                   /\ w.pkt.mac.src.key.blocks[1] = new.key[1]
    ]_vars

\* C2 witness: a compute made under K2 in slot 1 after slot 0 was retired and
\* its scrubbed buffer freed.
C2_Witness ==
  /\ ret.fn = "write_data" /\ ret.res = 0
  /\ write_mac_idx = 1
  /\ write_macs[0].key = NoKey
  /\ WriteActive.key # NoKey
  /\ WriteActive.key[1].K = "K2"
  /\ ZeroBlock \in freed
  /\ pkt.mac_len > 0
  /\ pkt.mac.src.key.blocks[1] = WriteActive.key[1]

\* C3 (as the specification states it): when set_key returns success, the
\* active slot of its direction holds a derived key or its algorithm is "none".
C3_DerivationFailureReported ==
  /\ (ret.fn = "set_read_key" /\ ret.res = 0 /\ phase = "running")
       => (ReadActive.key # NoKey \/ ReadActive.algo = "none")
  /\ (ret.fn = "set_write_key" /\ ret.res = 0 /\ phase = "running")
       => (WriteActive.key # NoKey \/ WriteActive.algo = "none")

\* C4 (as the specification states it): a set_key of a rekey (the active
\* generation keyed, the other slot prepared by set_algorithm) that fails (an
\* error returned, or no key derived) leaves the previous generation keyed and
\* active.
C4_DerivedBeforeSwitch ==
  [][ (/\ ret'.fn = "set_read_key"
       /\ ReadActive.key # NoKey
       /\ read_macs[get_next_index(read_mac_idx)].algo # NULL
       /\ phase' = "running"
       /\ (ret'.res # 0 \/ read_macs'[read_mac_idx'].key = NoKey))
        => /\ read_mac_idx' = read_mac_idx
           /\ read_macs'[read_mac_idx] = ReadActive
    ]_vars

\* C5 (as the specification states it): after teardown no slot of either
\* direction holds a key.
C5_TeardownLeavesNoKey ==
  phase = "freed"
    => \A i \in Slots : read_macs[i].key = NoKey /\ write_macs[i].key = NoKey

\* C6 (as the specification states it): between init and teardown no call
\* makes the value of block_size smaller.
C6_BlockSizeNeverDecreases ==
  [][ (phase = "running" /\ phase' = "running")
        => proxy_ssh_mac_get_block_size' >= proxy_ssh_mac_get_block_size
    ]_vars

\* C6, amended: block_size gets smaller only in a read-direction set_key that
\* retires a keyed generation.  That set_key resets the size tracked for the
\* retired slot and flips the index; block_size is then the new generation's
\* tag length when it succeeds and 0 when it fails.  Any other set_key never
\* lowers it, and set_algorithm, verify and teardown leave it unchanged.
C6_BlockSizeDecreasesOnlyOnRekey ==
  [][ phase = "running"
        => LET rekey == ret'.fn = "set_read_key" /\ ReadActive.key # NoKey
               new == read_macs'[read_mac_idx']
           IN /\ ~rekey => proxy_ssh_mac_get_block_size' >= proxy_ssh_mac_get_block_size
              /\ ret'.fn # "set_read_key"
                   => proxy_ssh_mac_get_block_size' = proxy_ssh_mac_get_block_size
              /\ rekey
                   => /\ read_mac_idx' # read_mac_idx
                      /\ mac_blockszs'[read_mac_idx] = 0
                      /\ (ret'.res # 0 \/ phase' = "crashed")
                           => proxy_ssh_mac_get_block_size' = 0
                      /\ (ret'.res = 0 /\ phase' = "running" /\ new.digest # NULL)
                           => proxy_ssh_mac_get_block_size' = EffectiveLen(new)
    ]_vars

\* C6 witness: a rekey to hmac-sha1-96 has succeeded and block_size is its 12.
C6_Witness ==
  /\ ret.fn = "set_read_key" /\ ret.res = 0
  /\ read_mac_idx = 1
  /\ ReadActive.algo = "hmac-sha1-96"
  /\ ReadActive.key # NoKey
  /\ ZeroBlock \in freed
  /\ mac_blockszs[0] = 0
  /\ proxy_ssh_mac_get_block_size = 12

\* C7 (as the specification states it): under a working read generation,
\* verify of any received packet whose tag is not of the generation's tag
\* length is rejected, whatever lies past the end of the received tag, and the
\* comparison reads no byte past that end.
C7_LengthMismatchRejected ==
  \A p \in Received :
    (ReadGenerationWorks /\ TagLen(p.mac) # EffectiveLen(ReadActive))
      => /\ \A oob \in {"equal", "differ"} : read_data(p, TRUE, oob).res = -1
         /\ TagLen(p.mac) >= EffectiveLen(ReadActive)

\* C8 (as the specification states it): a compute that returned success on a
\* direction whose active slot names an algorithm other than "none" produced a
\* tag of at least one byte.
C8_NoEmptyTagForProtected ==
  (/\ ret.fn = "write_data" /\ ret.res = 0
   /\ WriteActive.algo \notin {NULL, "none"})
    => pkt.mac_len > 0

\* C8, amended: what compute returns goes by the key, not by the algorithm
\* name.  When the active write slot holds a key, a successful compute produced
\* a tag of the algorithm's tag length, never an empty one; when it holds no
\* key (before the first set_key, under "none", after a failed derivation)
\* compute returns success with a zero-length tag.
C8_EmptyTagIffKeyless ==
  ret.fn = "write_data"
    => IF WriteActive.key = NoKey
         THEN ret.res = 0 /\ pkt.mac_len = 0 /\ pkt.mac = NoTag
         ELSE ret.res = 0
                => pkt.mac_len = EffectiveLen(WriteActive) /\ pkt.mac_len > 0

\* C8 witness: a compute returned success with a zero-length tag while the
\* active write slot names a protected algorithm and holds no key.
C8_Witness ==
  /\ ret.fn = "write_data" /\ ret.res = 0
  /\ WriteActive.algo \notin {NULL, "none"}
  /\ WriteActive.key = NoKey
  /\ pkt.mac_len = 0

\* C9: round trip.  When the write and the read direction hold the same
\* algorithm and their keys were derived from the same digest, K, H and session
\* id under opposite roles, or both hold "none", then for every packet the tag
\* compute produces is accepted by verify.
C9_RoundTrip ==
  LET rk == ReadActive.key
      wk == WriteActive.key
      same == /\ ReadActive.algo = WriteActive.algo
              /\ \/ /\ ReadActive.algo = "none"
                    /\ rk = NoKey /\ wk = NoKey
                 \/ /\ rk # NoKey /\ wk # NoKey
                    /\ rk[1].md = wk[1].md /\ rk[1].K = wk[1].K
                    /\ rk[1].H = wk[1].H /\ rk[1].id = wk[1].id
                    /\ \E role \in {PROXY_SSH_ROLE_CLIENT, PROXY_SSH_ROLE_SERVER} :
                         /\ wk[1].letter = WriteLetter(role)
                         /\ rk[1].letter = ReadLetter(Opposite(role))
  IN same
       => \A p \in SentPackets :
            LET w == write_data(p, TRUE) IN
            /\ w.res = 0
            /\ w.pkt.mac_len = (IF wk = NoKey THEN 0 ELSE EffectiveLen(WriteActive))
            /\ read_data(w.pkt, TRUE, "differ").res = 0

\* C9 witness: verify accepted the tag the write direction computes on the
\* base packet, the two directions holding equal keys.
C9_Witness ==
  /\ ret.fn = "read_data" /\ ret.res = 0
  /\ ReadActive.key # NoKey /\ WriteActive.key # NoKey
  /\ ReadActive.algo = WriteActive.algo
  /\ ReadActive.key[1] = WriteActive.key[1]
  /\ pkt.mac_len > 0
  /\ pkt.mac = LocalTag(BasePacket)

\* C10: under a working read generation (hence not "none"), the tag sent on the
\* base packet is accepted on the base packet and rejected on every packet that
\* differs from it in one of sequence number, packet length, padding length,
\* payload and padding.  An HMAC's buffer begins with the 4 bytes of the
\* sequence number and has no nonce; a UMAC's buffer is the same under every
\* sequence number and begins with the packet length, and the nonce is the 8
\* bytes of the sequence number.
C10_TagDependsOnAllFields ==
  ReadGenerationWorks
    => /\ \A q \in Packets :
            read_data(Tagged(q, PeerTag(BasePacket)), TRUE, "differ").res
              = (IF q = BasePacket THEN 0 ELSE -1)
       /\ LET p1 == [BasePacket EXCEPT !.seqno = 1]
              t0 == PeerTag(BasePacket).src
              t1 == PeerTag(p1).src
          IN IF ReadActive.algo_type = PROXY_SSH_MAC_ALGO_TYPE_HMAC
               THEN /\ SubSeq(t0.buf, 1, 4) = proxy_ssh_msg_write_int(BasePacket.seqno)
                    /\ SubSeq(t1.buf, 1, 4) = proxy_ssh_msg_write_int(p1.seqno)
                    /\ SubSeq(t0.buf, 5, Len(t0.buf)) = SubSeq(t1.buf, 5, Len(t1.buf))
                    /\ t0.nonce = << >>
               ELSE /\ t0.buf = t1.buf
                    /\ SubSeq(t0.buf, 1, 4) = proxy_ssh_msg_write_int(BasePacket.packet_len)
                    /\ Len(t0.nonce) = 8 /\ Len(t1.nonce) = 8
                    /\ t0.nonce = proxy_ssh_msg_write_long(BasePacket.seqno)
                    /\ t1.nonce = proxy_ssh_msg_write_long(p1.seqno)

\* C10 witness: under UMAC-128, verify rejected the packet whose padding
\* differs from the base packet's, carrying the tag sent on the base packet.
C10_Witness ==
  /\ ret.fn = "read_data" /\ ret.res = -1
  /\ ReadActive.key # NoKey
  /\ ReadActive.algo_type = PROXY_SSH_MAC_ALGO_TYPE_UMAC128
  /\ pkt.padding = << 10, 9 >>
  /\ pkt.mac_len > 0
  /\ pkt.mac = PeerTag(BasePacket)

\* The tag length of a generation by its descriptor: 8 for UMAC-64, 16 for
\* UMAC-128, the truncated length when the descriptor has one, else the output
\* size of the digest.
DescriptorTagLen(mac) ==
  IF mac.algo_type = PROXY_SSH_MAC_ALGO_TYPE_UMAC64 THEN 8
  ELSE IF mac.algo_type = PROXY_SSH_MAC_ALGO_TYPE_UMAC128 THEN 16
  ELSE IF mac.mac_len # 0 THEN mac.mac_len
  ELSE EVP_MD_size(mac.digest)

\* C11: tag length.  When the active slot of a direction holds a key, compute
\* of every packet attaches a tag of the length the slot's descriptor fixes,
\* and verify accepts the peer's tag of that length on every packet: 8 bytes
\* under UMAC-64, 16 under UMAC-128, 12 under hmac-sha1-96, 32 under
\* hmac-sha2-256, whatever the packet and whatever generations came before.
C11_TagLength ==
  /\ WriteActive.key # NoKey
       => /\ \A p \in Packets :
               LET r == write_data(p, TRUE) IN
                 /\ r.res = 0
                 /\ r.pkt.mac_len = DescriptorTagLen(WriteActive)
                 /\ TagLen(r.pkt.mac) = DescriptorTagLen(WriteActive)
          /\ WriteActive.algo = "umac-64@openssh.com" => DescriptorTagLen(WriteActive) = 8
          /\ WriteActive.algo = "umac-128@openssh.com" => DescriptorTagLen(WriteActive) = 16
          /\ WriteActive.algo = "hmac-sha1-96" => DescriptorTagLen(WriteActive) = 12
          /\ WriteActive.algo = "hmac-sha2-256" => DescriptorTagLen(WriteActive) = 32
  /\ ReadActive.key # NoKey
       => /\ \A p \in Packets :
               /\ TagLen(PeerTag(p)) = DescriptorTagLen(ReadActive)
               /\ LET r == read_data(Tagged(p, PeerTag(p)), TRUE, "differ") IN
                    r.res = 0 /\ r.pkt.mac_len = DescriptorTagLen(ReadActive)
          /\ ReadActive.algo = "umac-64@openssh.com" => DescriptorTagLen(ReadActive) = 8
          /\ ReadActive.algo = "umac-128@openssh.com" => DescriptorTagLen(ReadActive) = 16
          /\ ReadActive.algo = "hmac-sha1-96" => DescriptorTagLen(ReadActive) = 12
          /\ ReadActive.algo = "hmac-sha2-256" => DescriptorTagLen(ReadActive) = 32
  /\ (ret.fn = "write_data" /\ ret.res = 0 /\ WriteActive.key # NoKey)
       => pkt.mac_len = DescriptorTagLen(WriteActive)

\* C11 witness: the second write generation, hmac-sha1-96 after a keyed first
\* one, has attached a tag of 12 bytes.
C11_Witness ==
  /\ ret.fn = "write_data" /\ ret.res = 0
  /\ write_mac_idx = 1
  /\ WriteActive.key # NoKey
  /\ WriteActive.algo = "hmac-sha1-96"
  /\ pkt.mac_len = 12 /\ TagLen(pkt.mac) = 12

\* C12: the 'none' generation.  Whenever the active slot of a direction names
\* 'none', at first-time setup or after a rekey from a keyed generation, the
\* slot holds no key, compute of every packet returns success with a
\* zero-length tag, and verify of every packet returns success whatever tag
\* it carries.
C12_NoneGeneration ==
  /\ WriteActive.algo = "none"
       => /\ WriteActive.key = NoKey /\ WriteActive.key_len = 0
          /\ \A p \in Packets :
               LET r == write_data(p, TRUE) IN
                 r.res = 0 /\ r.pkt.mac_len = 0 /\ r.pkt.mac = NoTag
  /\ ReadActive.algo = "none"
       => /\ ReadActive.key = NoKey /\ ReadActive.key_len = 0
          /\ \A p \in Received \cup Packets :
               \A oob \in {"equal", "differ"} : read_data(p, TRUE, oob).res = 0
  /\ (ret.fn = "write_data" /\ WriteActive.algo = "none")
       => ret.res = 0 /\ pkt.mac_len = 0
  /\ (ret.fn = "read_data" /\ ReadActive.algo = "none") => ret.res = 0

\* C12 witness: the read direction went from a keyed generation to 'none' by a
\* rekey (the retired key was scrubbed and freed, the index flipped) and a
\* packet was verified under it, which left the packet without a tag.
C12_Witness ==
  /\ ret.fn = "read_data" /\ ret.res = 0
  /\ ReadActive.algo = "none" /\ ReadActive.key = NoKey
  /\ read_mac_idx = 1
  /\ ZeroBlock \in freed
  /\ pkt.payload = BasePacket.payload
  /\ pkt.mac_len = 0

Roles == {PROXY_SSH_ROLE_CLIENT, PROXY_SSH_ROLE_SERVER}

\* C13: derivation letters.  For either role the read letter and the write
\* letter differ; the client's write letter and the server's read letter are
\* 'E'; the client's read letter and the server's write letter are 'F'.  A key
\* a direction holds was derived with the letter of that direction for one of
\* the roles, and the keys one role derives for its two directions from the
\* same K, H and session id start with different blocks.
C13_DerivationLetter ==
  /\ \A role \in Roles : ReadLetter(role) # WriteLetter(role)
  /\ WriteLetter(PROXY_SSH_ROLE_CLIENT) = "E"
  /\ ReadLetter(PROXY_SSH_ROLE_SERVER) = "E"
  /\ ReadLetter(PROXY_SSH_ROLE_CLIENT) = "F"
  /\ WriteLetter(PROXY_SSH_ROLE_SERVER) = "F"
  /\ \A role \in Roles : ReadLetter(role) = WriteLetter(Opposite(role))
  /\ ReadActive.key # NoKey
       => \E role \in Roles : ReadActive.key[1].letter = ReadLetter(role)
  /\ WriteActive.key # NoKey
       => \E role \in Roles : WriteActive.key[1].letter = WriteLetter(role)
  /\ (ReadActive.key # NoKey /\ WriteActive.key # NoKey)
       => \A role \in Roles :
            (/\ ReadActive.key[1].letter = ReadLetter(role)
             /\ WriteActive.key[1].letter = WriteLetter(role))
              => ReadActive.key[1] # WriteActive.key[1]

\* C13 witness: a client keyed both directions: the read key was derived with
\* 'F', the write key with 'E'.
C13_Witness ==
  /\ ret.fn = "set_write_key" /\ ret.res = 0
  /\ ReadActive.key # NoKey /\ WriteActive.key # NoKey
  /\ ReadActive.key[1].letter = "F"
  /\ WriteActive.key[1].letter = "E"
  /\ ReadActive.key[1].K = WriteActive.key[1].K

\* C14: set_algorithm keeps the keys and the index.  A set_algorithm step on
\* the read direction, whether it returns success or failure and whatever the
\* state it starts in, leaves read_mac_idx and the key, the key buffer size and
\* the key length of both read slots as they were.
C14_SetAlgoKeepsKeys ==
  [][ ret'.fn = "set_read_algo"
        => /\ read_mac_idx' = read_mac_idx
           /\ \A i \in Slots :
                /\ read_macs'[i].key = read_macs[i].key
                /\ read_macs'[i].keysz = read_macs[i].keysz
                /\ read_macs'[i].key_len = read_macs[i].key_len ]_vars

\* C14 witness: a set_algorithm succeeded while the first generation was keyed
\* and active: the next generation is named in slot 1, the key stays in slot 0.
C14_Witness ==
  /\ ret.fn = "set_read_algo" /\ ret.res = 0
  /\ read_mac_idx = 0
  /\ ReadActive.key # NoKey /\ ReadActive.key_len > 0
  /\ read_macs[1].algo # NULL /\ read_macs[1].key = NoKey

\* C15: one key per direction.  In every state the inactive slot of the read
\* direction holds no key material (it is empty, or holds the descriptor of the
\* generation prepared next), so at most one read slot holds a key.
C15_InactiveSlotKeyless ==
  /\ read_macs[get_next_index(read_mac_idx)].key = NoKey
  /\ read_macs[get_next_index(read_mac_idx)].keysz = 0
  /\ read_macs[get_next_index(read_mac_idx)].key_len = 0
  /\ Cardinality({i \in Slots : read_macs[i].key # NoKey}) <= 1
  /\ write_macs[get_next_index(write_mac_idx)].key = NoKey
  /\ Cardinality({i \in Slots : write_macs[i].key # NoKey}) <= 1

\* C15 witness: after a rekey the second generation is keyed in slot 1, and
\* slot 0, which held the first generation's key, holds none.
C15_Witness ==
  /\ ret.fn = "set_read_key" /\ ret.res = 0
  /\ read_mac_idx = 1
  /\ ReadActive.key # NoKey
  /\ read_macs[0].key = NoKey /\ read_macs[0].algo = NULL
  /\ ZeroBlock \in freed

\* C16: the active index.  read_mac_idx changes in a step exactly when the step
\* is a set_key on the read direction that starts with the active slot keyed,
\* and then it moves to the other slot, once: a set_key that starts with the
\* active slot keyless, set_algorithm, verify, the block-size accessor, the
\* algorithm-name query, init and teardown leave it as it is.
C16_IndexFlipsOnlyInSetKey ==
  [][ /\ (read_mac_idx' # read_mac_idx)
           <=> (ret'.fn = "set_read_key" /\ ReadActive.key # NoKey)
      /\ read_mac_idx' # read_mac_idx => read_mac_idx' = get_next_index(read_mac_idx)
      /\ ret'.fn \in {"set_read_algo", "read_data", "get_block_size", "get_read_algo",
                      "init", "free"}
           => read_mac_idx' = read_mac_idx
      /\ write_mac_idx' = write_mac_idx ]_vars

\* C16 witness: two set_key calls were made: the first, on a keyless active
\* slot, left the index at 0; the second, a rekey, moved it to 1.
C16_Witness ==
  /\ ret.fn = "set_read_key" /\ ret.res = 0
  /\ ncalls.read = 4
  /\ read_mac_idx = 1
  /\ ReadActive.key # NoKey
  /\ ReadActive.algo = "umac-128@openssh.com"

\* C17: the directions are independent.  A step of a read-direction operation
\* leaves the write slots, their contexts and write_mac_idx as they were; a step
\* of a write-direction operation leaves the read slots, their contexts,
\* read_mac_idx and the tracked block sizes as they were, so what a direction
\* does next is what it would do had the other direction not been called; in
\* particular set_key on the write direction never changes block_size.
C17_DirectionsIndependent ==
  [][ /\ ret'.fn \in {"set_read_algo", "set_read_key", "read_data"}
           => /\ write_macs' = write_macs
              /\ hmac_write_ctxs' = hmac_write_ctxs
              /\ umac_write_ctxs' = umac_write_ctxs
              /\ write_mac_idx' = write_mac_idx
      /\ ret'.fn \in {"set_write_algo", "set_write_key", "write_data"}
           => /\ read_macs' = read_macs
              /\ hmac_read_ctxs' = hmac_read_ctxs
              /\ umac_read_ctxs' = umac_read_ctxs
              /\ read_mac_idx' = read_mac_idx
              /\ mac_blockszs' = mac_blockszs
              /\ proxy_ssh_mac_get_block_size' = proxy_ssh_mac_get_block_size ]_vars

\* C17 witness: with the read direction keyed under hmac-sha1-96 (block_size
\* 12), the write direction was keyed under umac-128 (tag length 16):
\* block_size is still 12.
C17_Witness ==
  /\ ret.fn = "set_write_key" /\ ret.res = 0
  /\ ReadActive.key # NoKey /\ ReadActive.algo = "hmac-sha1-96"
  /\ WriteActive.key # NoKey /\ WriteActive.algo = "umac-128@openssh.com"
  /\ proxy_ssh_mac_get_block_size = 12

\* C18: the algorithm-name query.  A call of the read direction's query
\* returns: the active slot's name when that slot holds a key, 'none' or no
\* name when it holds none, and never the name of a generation that
\* set_algorithm prepared and set_key has not keyed yet.  (Violated: with
\* neither a key nor a name in the active slot the query hands a null pointer
\* to strcmp(), and the process can end there.)
C18_QueryReturnsActiveName ==
  ret.fn = "get_read_algo"
    => /\ phase # "crashed"
       /\ ReadActive.key # NoKey => ret.res = ReadActive.algo
       /\ ReadActive.key = NoKey => ret.res \in {"none", NULL}
       /\ LET next == read_macs[get_next_index(read_mac_idx)] IN
            (next.algo # NULL /\ next.algo # ReadActive.algo) => ret.res # next.algo

\* C19: an unresolvable name.  A set_algorithm step on the read direction
\* returns failure exactly when the catalog does not resolve the name it is
\* handed (a success leaves the target slot with a resolved digest and its
\* name), and a step that returns failure leaves the active generation as it
\* was: read_mac_idx, the active slot's key, key length, name and tag length
\* are unchanged, and verify of every received packet returns what it
\* returned before the step and leaves the same packet.
C19_UnresolvedNameLeavesActive ==
  [][ /\ (ret'.fn = "set_read_algo" /\ ret'.res # 0)
           => /\ ret'.res = -1
              /\ read_mac_idx' = read_mac_idx
              /\ read_macs'[read_mac_idx].key = ReadActive.key
              /\ read_macs'[read_mac_idx].key_len = ReadActive.key_len
              /\ read_macs'[read_mac_idx].algo = ReadActive.algo
              /\ read_macs'[read_mac_idx].mac_len = ReadActive.mac_len
              /\ mac_blockszs' = mac_blockszs
              /\ \A p \in Received :
                   VerifyOn(p, read_macs', hmac_read_ctxs', umac_read_ctxs',
                            read_mac_idx')
                     = VerifyOn(p, read_macs, hmac_read_ctxs, umac_read_ctxs,
                                read_mac_idx)
              /\ read_macs'[TargetIndex(read_macs, read_mac_idx)].digest = NULL
      /\ (ret'.fn = "set_read_algo" /\ ret'.res = 0)
           => LET mac == read_macs'[TargetIndex(read_macs, read_mac_idx)] IN
                /\ mac.algo # NULL
                /\ mac.digest = proxy_ssh_crypto_get_digest(mac.algo).digest
                /\ mac.digest # NULL ]_vars

\* C19 witness: during a rekey a set_algorithm with a name the catalog does
\* not hold returned failure; the keyed generation is still active and still
\* verifies its peer's packets.
C19_Witness ==
  /\ ret.fn = "set_read_algo" /\ ret.res = -1
  /\ ReadActive.key # NoKey
  /\ ReadActive.algo = "hmac-sha2-256"
  /\ ReadGenerationWorks
  /\ read_macs[get_next_index(read_mac_idx)].digest = NULL

\* The key set_mac_key() derives for a slot named `algo` from the digest md, K,
\* H, the letter and the session id.
DerivedKey(algo, md, k, h, letter, id) ==
  LET named == set_algo_at([i \in Slots |-> EmptyMac], [i \in Slots |-> UmacNull],
                           0, algo).macs[0]
  IN set_mac_key(named, md, k, h, letter, id, "none", TRUE, "crash").mac.key

\* Whether the byte string a is the beginning of the byte string b.
IsPrefix(a, b) == Len(a) <= Len(b) /\ a = SubSeq(b, 1, Len(a))

\* C20: key derivation.  The key a read slot holds is the one its inputs fix:
\* its first block is HASH(K || H || letter || session_id), each further block
\* is HASH(K || H || all the blocks before it), deriving again with the same
\* digest, K, H, letter, session id and algorithm gives the same key, and
\* deriving with them for an algorithm that needs a longer or a shorter key
\* gives a key that agrees with it on the shorter length.
C20_KeyDerivation ==
  ReadActive.key # NoKey
    => LET key == ReadActive.key
           b == key[1]
       IN /\ b = EVP_Digest(b.md, b.K, b.H, b.letter, b.id, << >>)
          /\ b.letter \in {"E", "F"} /\ b.id = "sid"
          /\ \A i \in 2..Len(key) :
               key[i] = EVP_Digest(b.md, b.K, b.H, "", "", SubSeq(key, 1, i - 1))
          /\ Len(key) * EVP_MD_size(b.md) = ReadActive.keysz
          /\ key = DerivedKey(ReadActive.algo, b.md, b.K, b.H, b.letter, b.id)
          /\ \A algo \in AlgoNames \ {"bogus", "none"} :
               LET other == DerivedKey(algo, b.md, b.K, b.H, b.letter, b.id)
               IN IsPrefix(key, other) \/ IsPrefix(other, key)

\* C20 witness: a key of four blocks was derived under SHA-1 for an HMAC slot,
\* and the key of UMAC-64 under the same inputs is its first two blocks.
C20_Witness ==
  /\ ret.fn = "set_read_key" /\ ret.res = 0
  /\ ReadActive.key # NoKey
  /\ ReadActive.algo = "hmac-sha2-256"
  /\ ReadActive.key[1].md = "sha1"
  /\ Len(ReadActive.key) = 4
  /\ LET b == ReadActive.key[1]
         short == DerivedKey("umac-64@openssh.com", b.md, b.K, b.H, b.letter, b.id)
     IN Len(short) = 2 /\ short = SubSeq(ReadActive.key, 1, 2)

\* The read slot set_key derives into holds no key after the call although its
\* digest was resolved and takes a key: the derivation failed.
ReadDerivationFailed ==
  /\ ReadActive.key = NoKey
  /\ ReadActive.digest # NULL
  /\ EVP_MD_block_size(ReadActive.digest) > 0

\* C21: a failed derivation.  No key buffer is handed to free() with a derived
\* block in it: every block written to it is zeroed, the others are as
\* malloc() left them.  And a set_key step on the read direction whose
\* derivation fails, in the first block or in an extension round, leaves the
\* key, the key buffer size and the key length of the slot it derives into as
\* they were.
C21_FailedDerivationScrubs ==
  [][ /\ \A b \in freed' : b \in {ZeroBlock, UninitBlock}
      /\ (ret'.fn = "set_read_key" /\ ReadDerivationFailed')
           => /\ read_macs'[read_mac_idx'].key = read_macs[read_mac_idx'].key
              /\ read_macs'[read_mac_idx'].keysz = read_macs[read_mac_idx'].keysz
              /\ read_macs'[read_mac_idx'].key_len = read_macs[read_mac_idx'].key_len ]_vars

\* C21 witness: a first-time set_key on an HMAC slot failed in EVP_DigestFinal()
\* or in the extension round: the buffer was zeroed and freed (no generation
\* was retired: the index is 0), and the slot holds no key.
C21_Witness ==
  /\ ret.fn = "set_read_key" /\ ret.res # 0
  /\ read_mac_idx = 0
  /\ ReadDerivationFailed
  /\ ReadActive.algo = "hmac-sha2-256"
  /\ freed = {ZeroBlock}

\* C22: constant-time comparison.  When verify under a keyed generation has
\* rejected a packet that carries a tag of at least the tag length, the
\* comparison read all the bytes of the tag length, wherever the first
\* differing byte is and whatever the build's memcmp().  (Violated: get_mac()
\* compares with memcmp(), which may return at the first differing byte.)
C22_ConstantTimeCompare ==
  (/\ ret.fn = "read_data" /\ ret.res = -1
   /\ ReadActive.key # NoKey
   /\ TagLen(pkt.mac) > 0
   /\ TagLen(pkt.mac) >= TagLen(PeerTag(pkt)))
    => \A build \in MemcmpBuilds :
         memcmp_examined(MacData(PeerTag(pkt)), pkt.mac, TagLen(PeerTag(pkt)), build)
           = TagLen(PeerTag(pkt))

\* C23: the slot set_algorithm writes.  A set_algorithm step on the read
\* direction writes to the inactive slot when the active slot holds a key and
\* to the active slot when it holds none, and leaves the other slot and its
\* UMAC context as they were; so a slot that holds a key keeps its descriptor.
\* When the step returns success the slot it wrote holds the descriptor of a
\* name of the catalog (name, family, digest, tag length) and, for a UMAC
\* family, a fresh UMAC context; and a set_algorithm that follows a successful
\* set_algorithm writes to the slot the first one prepared.
C23_SetAlgoTarget ==
  [][ ret'.fn = "set_read_algo"
        => LET t == IF ReadActive.key # NoKey THEN get_next_index(read_mac_idx)
                    ELSE read_mac_idx
               o == get_next_index(t)
               new == read_macs'[t]
           IN /\ read_macs'[o] = read_macs[o]
              /\ umac_read_ctxs'[o] = umac_read_ctxs[o]
              /\ \A i \in Slots : read_macs[i].key # NoKey => read_macs'[i] = read_macs[i]
              /\ read_macs[t].key = NoKey /\ new.key = NoKey
              /\ ret'.res = 0
                   => /\ new.algo \in AlgoNames \ {"bogus"}
                      /\ new.digest = proxy_ssh_crypto_get_digest(new.algo).digest
                      /\ new.mac_len = proxy_ssh_crypto_get_digest(new.algo).mac_len
                      /\ new.algo_type = PROXY_SSH_MAC_ALGO_TYPE_UMAC64
                           <=> new.algo = "umac-64@openssh.com"
                      /\ new.algo_type = PROXY_SSH_MAC_ALGO_TYPE_UMAC128
                           <=> new.algo = "umac-128@openssh.com"
                      /\ new.algo_type # PROXY_SSH_MAC_ALGO_TYPE_HMAC
                           => umac_read_ctxs'[t] = proxy_ssh_umac_alloc(new.algo_type)
              /\ (ret.fn = "set_read_algo" /\ ret.res = 0)
                   => read_macs[t].algo # NULL /\ read_macs[t].digest # NULL ]_vars

\* C23 witness: during a rekey (slot 0 keyed and active) a set_algorithm wrote
\* the descriptor of umac-64 and a fresh UMAC context to slot 1; slot 0 keeps
\* its key and its name.
C23_Witness ==
  /\ ret.fn = "set_read_algo" /\ ret.res = 0
  /\ read_mac_idx = 0
  /\ read_macs[0].key # NoKey /\ read_macs[0].algo = "hmac-sha2-256"
  /\ read_macs[1].algo = "umac-64@openssh.com" /\ read_macs[1].key = NoKey
  /\ umac_read_ctxs[1] = proxy_ssh_umac_alloc(PROXY_SSH_MAC_ALGO_TYPE_UMAC64)
  /\ ncalls.read = 4

\* C24: set_key with no preparation pending.  A set_key step on the read
\* direction that starts with the active slot keyed and the other slot not
\* named by set_algorithm (as in two set_key calls in a row) leaves
\* read_mac_idx as it was and the active slot keyed under the name it had; and
\* no set_key step makes a slot active that set_algorithm had not named.
\* (Violated: set_key retires the keyed slot and flips the index before it
\* looks at the slot it derives into.)
C24_SetKeyWithoutPreparation ==
  [][ ret'.fn = "set_read_key"
        => /\ (/\ ReadActive.key # NoKey
               /\ read_macs[get_next_index(read_mac_idx)].algo = NULL)
                => /\ read_mac_idx' = read_mac_idx
                   /\ read_macs'[read_mac_idx].key # NoKey
                   /\ read_macs'[read_mac_idx].algo = ReadActive.algo
           /\ read_mac_idx' # read_mac_idx => read_macs[read_mac_idx'].algo # NULL ]_vars

\* C25: block_size after set_key.  After a set_key on the read direction that
\* returned success, block_size is the tag length of the active read
\* generation (its truncated length, else the output size of its digest; 0
\* under 'none'), and the size tracked for the inactive slot is 0.
\* (Violated: proxy_ssh_mac_set_block_size() only ever raises the size, and a
\* keyless active slot keeps the size an earlier set_key stored for it.)
C25_BlockSizeIsTagLength ==
  (/\ ret.fn = "set_read_key" /\ ret.res = 0
   /\ phase = "running"
   /\ ReadActive.digest # NULL)
    => /\ proxy_ssh_mac_get_block_size = EffectiveLen(ReadActive)
       /\ ReadActive.algo = "none" => proxy_ssh_mac_get_block_size = 0
       /\ mac_blockszs[get_next_index(read_mac_idx)] = 0

\* C26: the queries are safe in every state.  In every state between init and
\* teardown, the one right after init and the one right after a generation
\* was retired included,
\* a call of the read or of the write algorithm-name query returns, whatever
\* the build makes of a null dereference, and returns no name when the active
\* slot's name is unset.  (Violated: with no key in the active slot the read
\* query hands the slot's name to strcmp(), and the name is NULL in the
\* initial state and after clear_mac().)
C26_QueriesSafeEverywhere ==
  phase = "running"
    => \A ub \in {"crash", "error"} :
         LET r == get_read_algo(ReadActive, ub)
             w == get_write_algo(WriteActive, ub)
         IN /\ ~r.crash /\ ~w.crash
            /\ ReadActive.algo = NULL => r.name = NULL
            /\ WriteActive.algo = NULL => w.name = NULL

====
